---- MODULE Spec2Model ----
(***************************************************************************)
(* State-machine model of the CFFilterQA analysis task                     *)
(* (src/EventFiltering/PWGCF/CFFilterQA.cxx).                              *)
(*                                                                         *)
(* The framework calls process() once per collision.  The task's state is  *)
(* its configurables, the run-number cache, the eight Bethe-Bloch vectors, *)
(* the histogram registry and the two output tables.                       *)
(*                                                                         *)
(* Numbers: every real-valued quantity (momenta, eta, DCA, nSigma, TPC     *)
(* signal, Bethe-Bloch parameters) is a fixed-point integer in hundredths  *)
(* (1.00 is 100); counts (clusters, run numbers, timestamps) are plain     *)
(* integers.  Floating-point rounding is not modelled.                     *)
(***************************************************************************)
EXTENDS Integers, Sequences, FiniteSets, TLC

(***************************************************************************)
(* Bounds of the model.                                                    *)
(***************************************************************************)
\* number of process() calls in one behaviour
MaxEvents == 3
\* number of process() calls before the member predicates are called directly
MaxCallEvents == 1

(***************************************************************************)
(* Enumerations of namespace CFTrigger.                                    *)
(***************************************************************************)
kProton == 0
kDeuteron == 1
kLambda == 2
kDaughPion == 0
kDaughProton == 1
kRejProton == 0
kRejPion == 1
kRejElectron == 2
kTPCMin == 0
kTPCMax == 1
kTOFMin == 2
kTOFMax == 3
kTPCTOF == 4

(***************************************************************************)
(* Fixed-point helpers.                                                    *)
(***************************************************************************)
Abs(x) == IF x < 0 THEN -x ELSE x

\* C++ division of fixed-point numbers truncates nothing in floating point;
\* here the quotient is rounded toward zero.
Quot(a, b) == IF (a < 0) = (b < 0) THEN Abs(a) \div Abs(b) ELSE -(Abs(a) \div Abs(b))

FMul(a, b) == Quot(a * b, 100)
FDiv(a, b) == Quot(a * 100, b)

RECURSIVE SqrtBetween(_, _, _)
SqrtBetween(lo, hi, x) ==
    IF lo >= hi THEN lo
    ELSE CHOOSE r \in { IF mid * mid <= x THEN SqrtBetween(mid, hi, x)
                                          ELSE SqrtBetween(lo, mid - 1, x) :
                        mid \in { (lo + hi + 1) \div 2 } } : TRUE

\* std::sqrt(std::pow(a, 2) + std::pow(b, 2)) of two fixed-point numbers,
\* rounded down to the hundredth.
Hypot(a, b) == SqrtBetween(0, Abs(a) + Abs(b), a * a + b * b)

(***************************************************************************)
(* Static tables of namespace CFTrigger, as LabeledArray rows.             *)
(***************************************************************************)
pidcutsTable == << <<-600, 600, -600, 600, 600>>,
                   <<-600, 600, -9900, 9900, 9900>> >>
pidcutsTableAnti == << <<-600, 600, -600, 600, 600>>,
                       <<-600, 600, -9900, 9900, 9900>> >>
\* declared [kNParticleRejection][nPidRejection] = [3][2] with two rows of
\* initialisers: the third (electron) row is zero-initialised
pidRejectionTable == << <<-200, 200>>, <<-200, 200>>, <<0, 0>> >>
pidTPCTOFAvgTable == [s \in {"Proton", "AntiProton", "Deuteron", "AntiDeuteron"} |->
                        [a \in {"TPC Avg", "TOF Avg"} |-> 0]]
pidcutsV0DaughterTable == << <<-600, 600>>, <<-600, 600>> >>
ptcutsTable == << [PtMin |-> 35, PtMax |-> 600, PThres |-> 75],
                  [PtMin |-> 35, PtMax |-> 160, PThres |-> 9900],
                  [PtMin |-> 35, PtMax |-> 600, PThres |-> 9900] >>
NClustersMin == <<60, 60>>

\* LabeledArray::get(row, col) with 0-based enum indices
Get(table, row, c) == table[row + 1][c + 1]

(***************************************************************************)
(* Configurables of the task, with their default values.                   *)
(***************************************************************************)
DefaultConf ==
    [ ConfIsRun3 |-> TRUE,
      ConfEvtSelectZvtx |-> TRUE,
      ConfEvtZvtx |-> 1000,
      ConfEvtOfflineCheck |-> FALSE,
      ConfCutBitPart |-> 8190,
      ConfCutBitAntiPart |-> 8189,
      ConfPidBitProton |-> 1,
      ConfDeuteronThPVMom |-> FALSE,
      ConfUseManualPIDproton |-> FALSE,
      ConfPIDBBProton |-> "Users/l/lserksny/PIDProton",
      ConfPIDBBAntiProton |-> "Users/l/lserksny/PIDAntiProton",
      ConfUseManualPIDdeuteron |-> FALSE,
      ConfPIDBBDeuteron |-> "Users/l/lserksny/PIDDeuteron",
      ConfPIDBBAntiDeuteron |-> "Users/l/lserksny/PIDAntiDeuteron",
      ConfUseManualPIDpion |-> FALSE,
      ConfPIDBBPion |-> "Users/l/lserksny/PIDPion",
      ConfPIDBBAntiPion |-> "Users/l/lserksny/PIDAntiPion",
      ConfUseManualPIDel |-> FALSE,
      ConfPIDBBElectron |-> "Users/l/lserksny/PIDElectron",
      ConfPIDBBAntiElectron |-> "Users/l/lserksny/PIDAntiElectron",
      ConfUseManualPIDdaughterPion |-> FALSE,
      ConfUseManualPIDdaughterProton |-> FALSE,
      ConfRejectNotPropagatedTracks |-> FALSE,
      ConfTrkEta |-> 85,
      ConfTPCNClustersMin |-> NClustersMin,
      ConfTrkTPCfCls |-> 83,
      ConfTrkTPCcRowsMin |-> 70,
      ConfTrkTPCsClsMax |-> 160,
      ConfTrkITSnclsMin |-> 0,
      ConfTrkITSnclsIbMin |-> 0,
      ConfTrkDCAxyMax |-> 15,
      ConfTrkDCAzMax |-> 30,
      ConfTrkRequireChi2MaxTPC |-> FALSE,
      ConfTrkRequireChi2MaxITS |-> FALSE,
      ConfTrkMaxChi2PerClusterTPC |-> 400,
      ConfTrkMaxChi2PerClusterITS |-> 3600,
      ConfTrkTPCRefit |-> FALSE,
      ConfTrkITSRefit |-> FALSE,
      ConfPIDCuts |-> pidcutsTable,
      ConfPIDCutsAnti |-> pidcutsTableAnti,
      ConfPtCuts |-> ptcutsTable,
      ConfPIDRejection |-> pidRejectionTable,
      ConfPIDTPCTOFAvg |-> pidTPCTOFAvgTable,
      ConfDaughEta |-> 85,
      ConfDaughTPCnclsMin |-> 60,
      ConfDaughDCAMin |-> 4,
      ConfDaughPIDCuts |-> pidcutsV0DaughterTable ]


\* a configuration: the defaults with the options of `over' set
ConfWith(over) ==
    [f \in DOMAIN DefaultConf |-> IF f \in DOMAIN over THEN over[f] ELSE DefaultConf[f]]

\* a ConfPIDRejection table with an explicit electron row
pidRejectionTableEl == << <<-200, 200>>, <<-200, 200>>, <<-200, 200>> >>

\* a ConfPtCuts table with a deuteron 'P thres' of 0.75
ptcutsTableDeuteronThres == [ptcutsTable EXCEPT ![kDeuteron + 1].PThres = 75]

\* the configurations the task is run with
Confs ==
    { DefaultConf,
      ConfWith([ConfIsRun3 |-> FALSE, ConfUseManualPIDproton |-> TRUE]),
      ConfWith([ConfUseManualPIDproton |-> TRUE]),
      ConfWith([ConfUseManualPIDdeuteron |-> TRUE]),
      ConfWith([ConfUseManualPIDproton |-> TRUE, ConfUseManualPIDdeuteron |-> TRUE,
                ConfEvtOfflineCheck |-> TRUE]),
      ConfWith([ConfUseManualPIDproton |-> TRUE, ConfUseManualPIDpion |-> TRUE,
                ConfUseManualPIDel |-> TRUE, ConfPIDRejection |-> pidRejectionTableEl]),
      ConfWith([ConfUseManualPIDproton |-> TRUE, ConfUseManualPIDel |-> TRUE,
                ConfPIDRejection |-> pidRejectionTableEl]),
      ConfWith([ConfUseManualPIDpion |-> TRUE]),
      ConfWith([ConfUseManualPIDdaughterPion |-> TRUE]),
      ConfWith([ConfUseManualPIDdaughterProton |-> TRUE]),
      ConfWith([ConfUseManualPIDdeuteron |-> TRUE, ConfUseManualPIDdaughterProton |-> TRUE,
                ConfUseManualPIDdaughterPion |-> TRUE]),
      ConfWith([ConfEvtSelectZvtx |-> FALSE]),
      ConfWith([ConfEvtOfflineCheck |-> TRUE]),
      ConfWith([ConfEvtSelectZvtx |-> FALSE, ConfEvtOfflineCheck |-> TRUE]),
      ConfWith([ConfDeuteronThPVMom |-> TRUE, ConfPIDRejection |-> pidRejectionTableEl,
                ConfPtCuts |-> ptcutsTableDeuteronThres]),
      ConfWith([ConfPtCuts |-> ptcutsTableDeuteronThres]),
      ConfWith([ConfTrkRequireChi2MaxTPC |-> TRUE, ConfTrkRequireChi2MaxITS |-> TRUE,
                ConfTrkTPCRefit |-> TRUE, ConfTrkITSRefit |-> TRUE,
                ConfRejectNotPropagatedTracks |-> TRUE]) }

(***************************************************************************)
(* Input tables.  A row of aod::FemtoFullTracks, of the collision join, of *)
(* aod::BCsWithTimestamps and of aod::V0Datas, with the columns the task   *)
(* reads.                                                                  *)
(***************************************************************************)
GoodTrack ==
    [ pt |-> 100, eta |-> 10, phi |-> 314, sign |-> 1,
      tpcNClsFound |-> 120, tpcCrossedRowsOverFindableCls |-> 95,
      tpcNClsCrossedRows |-> 130, tpcNClsShared |-> 5,
      itsNCls |-> 7, itsNClsInnerBarrel |-> 3,
      dcaXY |-> 5, dcaZ |-> -10,
      tpcChi2NCl |-> 200, itsChi2NCl |-> 900, hasTPC |-> TRUE, hasITS |-> TRUE,
      tpcInnerParam |-> 50, p |-> 55, tpcSignal |-> 8000,
      tpcNSigmaPr |-> 50, tpcNSigmaDe |-> -300, tpcNSigmaPi |-> 900, tpcNSigmaEl |-> -800,
      tofNSigmaPr |-> 100, tofNSigmaDe |-> 400 ]

TrackWith(over) ==
    [f \in DOMAIN GoodTrack |-> IF f \in DOMAIN over THEN over[f] ELSE GoodTrack[f]]

tPos == GoodTrack
tNeg == TrackWith([sign |-> -1, phi |-> 100, tpcNSigmaPr |-> -150])
tLowPt == TrackWith([pt |-> 34])
tHighP == TrackWith([tpcInnerParam |-> 120, p |-> 125, tofNSigmaPr |-> 500, tpcNSigmaPr |-> 400])
tPidOut == TrackWith([tpcNSigmaPr |-> 650, tpcSignal |-> 3000])
tNegOut == TrackWith([sign |-> -1, tpcNSigmaPr |-> -600, tpcSignal |-> 3000])

\* aod::BCsWithTimestamps
BCs == << [runNumber |-> 1, timestamp |-> 1],
          [runNumber |-> 1, timestamp |-> 2],
          [runNumber |-> 2, timestamp |-> 3],
          [runNumber |-> 2, timestamp |-> 4] >>

\* the events the framework can hand to process: a collision, its tracks, its V0s
Events ==
    { [col |-> [posZ |-> 0, sel8 |-> TRUE, multNTracksPV |-> 2, multFV0M |-> 11, bcId |-> 1],
       tracks |-> <<tPos, tNeg>>, fullV0s |-> << [posTrackId |-> 1, negTrackId |-> 2] >>],
      [col |-> [posZ |-> 1000, sel8 |-> FALSE, multNTracksPV |-> 1, multFV0M |-> 7, bcId |-> 2],
       tracks |-> <<tPidOut>>, fullV0s |-> << >>],
      [col |-> [posZ |-> -1100, sel8 |-> TRUE, multNTracksPV |-> 1, multFV0M |-> 3, bcId |-> 3],
       tracks |-> <<tNeg>>, fullV0s |-> << >>],
      [col |-> [posZ |-> 500, sel8 |-> TRUE, multNTracksPV |-> 2, multFV0M |-> 5, bcId |-> 4],
       tracks |-> <<tLowPt, tHighP>>, fullV0s |-> << >>],
      [col |-> [posZ |-> 1001, sel8 |-> FALSE, multNTracksPV |-> 1, multFV0M |-> 2, bcId |-> 1],
       tracks |-> <<tPos>>, fullV0s |-> << >>],
      [col |-> [posZ |-> -1000, sel8 |-> TRUE, multNTracksPV |-> 3, multFV0M |-> 9, bcId |-> 3],
       tracks |-> <<tPos, tNegOut, tPidOut>>, fullV0s |-> << >>],
      [col |-> [posZ |-> 20, sel8 |-> TRUE, multNTracksPV |-> 2, multFV0M |-> 4, bcId |-> 2],
       tracks |-> <<tPos, tNeg>>, fullV0s |-> << >>] }

(***************************************************************************)
(* The conditions database: the TH1F stored under a path, valid at a       *)
(* timestamp, or none.  At timestamp 1 and 4 every object exists, at 2     *)
(* none, at 3 only the objects of the particles (not the antiparticles).   *)
(***************************************************************************)
NoObject == [found |-> FALSE]

AntiPaths == { "Users/l/lserksny/PIDAntiProton", "Users/l/lserksny/PIDAntiDeuteron",
               "Users/l/lserksny/PIDAntiPion", "Users/l/lserksny/PIDAntiElectron" }

CCDBObject(ccdbPath, timestamp) ==
    IF timestamp = 2 \/ (timestamp = 3 /\ ccdbPath \in AntiPaths)
    THEN NoObject
    ELSE [found |-> TRUE,
          bb1 |-> IF ccdbPath \in AntiPaths THEN 120 ELSE 100,
          bb2 |-> 2000 + 100 * timestamp,
          bb3 |-> 500, bb4 |-> 200, bb5 |-> 300,
          Resolution |-> 10]


(***************************************************************************)
(* State.                                                                  *)
(***************************************************************************)
VARIABLES
    conf,              \* the Configurable members
    pc,                \* "idle", "ready" (process about to be called), "fatal"
    nProcessed,        \* number of process() calls made
    col,               \* process() argument: the collision
    bcs,               \* process() argument: aod::BCsWithTimestamps
    tracks,            \* process() argument: the collision's tracks
    fullV0s,           \* process() argument: the collision's V0s
    currentRunNumber,
    lastRunNumber,
    bbVectors,         \* BBProton, BBAntiproton, ..., BBAntielectron
    registry,          \* HistogramRegistry: the entries filled into each histogram
    outputCollision,   \* Produces<aod::FemtoDreamCollisions>
    outputParts,       \* Produces<aod::FemtoDreamParticles>
    ccdbRequests,      \* the retrieveFromTFileAny calls made: <<path, timestamp>>
    call               \* the last direct call of a member predicate, with its result

vars == << conf, pc, nProcessed, col, bcs, tracks, fullV0s, currentRunNumber,
           lastRunNumber, bbVectors, registry, outputCollision, outputParts,
           ccdbRequests, call >>

inputs == << col, bcs, tracks, fullV0s >>

\* every member of the task and every output it owns
members == << conf, currentRunNumber, lastRunNumber, bbVectors, registry,
              outputCollision, outputParts >>

\* the histograms registered by init()
HistNames ==
    { "EventCuts/fMultiplicityAfter",
      "EventCuts/fMultiplicityBefore",
      "EventCuts/fZvtxAfter",
      "EventCuts/fZvtxBefore",
      "TrackCuts/AntiProton/fDCAxyAntiProton",
      "TrackCuts/AntiProton/fDCAzAntiProton",
      "TrackCuts/AntiProton/fEtaAntiProton",
      "TrackCuts/AntiProton/fNsigmaTOFvsPAntiProton",
      "TrackCuts/AntiProton/fNsigmaTPCTOFvsPAntiProton",
      "TrackCuts/AntiProton/fNsigmaTPCvsPAntiProton",
      "TrackCuts/AntiProton/fPhiAntiProton",
      "TrackCuts/AntiProton/fPtAntiProton",
      "TrackCuts/AntiProton/fTPCcRowsAntiProton",
      "TrackCuts/AntiProton/fTPCnclsAntiProton",
      "TrackCuts/AntiProton/fTPCsClsAntiProton",
      "TrackCuts/AntiProton/fTrkTPCfClsAntiProton",
      "TrackCuts/NSigmaBefore/fNsigmaTOFvsPAntiProtonBefore",
      "TrackCuts/NSigmaBefore/fNsigmaTOFvsPProtonBefore",
      "TrackCuts/NSigmaBefore/fNsigmaTPCTOFvsPAntiProtonBefore",
      "TrackCuts/NSigmaBefore/fNsigmaTPCTOFvsPProtonBefore",
      "TrackCuts/NSigmaBefore/fNsigmaTPCvsPAntiProtonAntiV0DaughBefore",
      "TrackCuts/NSigmaBefore/fNsigmaTPCvsPAntiProtonBefore",
      "TrackCuts/NSigmaBefore/fNsigmaTPCvsPPionMinusV0DaughBefore",
      "TrackCuts/NSigmaBefore/fNsigmaTPCvsPPionPlusAntiV0DaughBefore",
      "TrackCuts/NSigmaBefore/fNsigmaTPCvsPProtonBefore",
      "TrackCuts/NSigmaBefore/fNsigmaTPCvsPProtonV0DaughBefore",
      "TrackCuts/Proton/fDCAxyProton",
      "TrackCuts/Proton/fDCAzProton",
      "TrackCuts/Proton/fEtaProton",
      "TrackCuts/Proton/fNsigmaTOFvsPProton",
      "TrackCuts/Proton/fNsigmaTPCTOFvsPProton",
      "TrackCuts/Proton/fNsigmaTPCvsPProton",
      "TrackCuts/Proton/fPProton",
      "TrackCuts/Proton/fPTPCProton",
      "TrackCuts/Proton/fPhiProton",
      "TrackCuts/Proton/fPtProton",
      "TrackCuts/Proton/fTPCcRowsProton",
      "TrackCuts/Proton/fTPCnclsProton",
      "TrackCuts/Proton/fTPCsClsProton",
      "TrackCuts/Proton/fTrkTPCfClsProton",
      "TrackCuts/TPCSignal/fTPCSignal",
      "TrackCuts/TPCSignal/fTPCSignalALLCUTS",
      "TrackCuts/TPCSignal/fTPCSignalALLCUTSP",
      "TrackCuts/TPCSignal/fTPCSignalAnti",
      "TrackCuts/TPCSignal/fTPCSignalAntiALLCUTS",
      "TrackCuts/TPCSignal/fTPCSignalAntiALLCUTSP",
      "TrackCuts/TPCSignal/fTPCSignalAntiP",
      "TrackCuts/TPCSignal/fTPCSignalAntiProton",
      "TrackCuts/TPCSignal/fTPCSignalP",
      "TrackCuts/TPCSignal/fTPCSignalPionMinusV0Daughter",
      "TrackCuts/TPCSignal/fTPCSignalPionPlusV0Daughter",
      "TrackCuts/TPCSignal/fTPCSignalProton",
      "TrackCuts/TPCSignal/fTPCSignalProtonMinusV0Daughter",
      "TrackCuts/TPCSignal/fTPCSignalProtonPlusV0Daughter",
      "TrackCuts/TracksBefore/fEtaTrackBefore",
      "TrackCuts/TracksBefore/fMomCorrelation",
      "TrackCuts/TracksBefore/fMomCorrelationAfterCuts",
      "TrackCuts/TracksBefore/fPhiTrackBefore",
      "TrackCuts/TracksBefore/fPtTrackBefore" }

BBNames == { "BBProton", "BBAntiproton", "BBDeuteron", "BBAntideuteron",
             "BBPion", "BBAntipion", "BBElectron", "BBAntielectron" }

NoCall == [fn |-> "none"]
NoCollision == [posZ |-> 0, sel8 |-> FALSE, multNTracksPV |-> 0, multFV0M |-> 0, bcId |-> 1]

(***************************************************************************)
(* 1 / mass of the species, the momentum scaling handed to updatePID.      *)
(***************************************************************************)
bgScalingProton == 107
bgScalingDeuteron == 53
bgScalingPion == 716
bgScalingElectron == 195695

(***************************************************************************)
(* Event and track selection.                                              *)
(***************************************************************************)
\* the z-vertex cut excludes its own limit
isSelectedEventExcludingLimit(c) ==
    IF conf.ConfEvtSelectZvtx /\ Abs(c.posZ) >= conf.ConfEvtZvtx THEN FALSE
    ELSE IF conf.ConfEvtOfflineCheck /\ ~c.sel8 THEN FALSE
    ELSE TRUE

isSelectedEvent(c) ==
    IF conf.ConfEvtSelectZvtx /\ Abs(c.posZ) > conf.ConfEvtZvtx THEN FALSE
    ELSE IF conf.ConfEvtOfflineCheck /\ ~c.sel8 THEN FALSE
    ELSE TRUE

isSelectedTrack(track, partSpecies) ==
    IF track.pt < conf.ConfPtCuts[partSpecies + 1].PtMin THEN FALSE
    ELSE IF track.pt > conf.ConfPtCuts[partSpecies + 1].PtMax THEN FALSE
    ELSE IF Abs(track.eta) > conf.ConfTrkEta THEN FALSE
    ELSE IF track.tpcNClsFound < conf.ConfTPCNClustersMin[partSpecies + 1] THEN FALSE
    ELSE IF track.tpcCrossedRowsOverFindableCls < conf.ConfTrkTPCfCls THEN FALSE
    ELSE IF track.tpcNClsCrossedRows < conf.ConfTrkTPCcRowsMin THEN FALSE
    ELSE IF track.tpcNClsShared > conf.ConfTrkTPCsClsMax THEN FALSE
    ELSE IF track.itsNCls < conf.ConfTrkITSnclsMin THEN FALSE
    ELSE IF track.itsNClsInnerBarrel < conf.ConfTrkITSnclsIbMin THEN FALSE
    ELSE IF Abs(track.dcaXY) > conf.ConfTrkDCAxyMax THEN FALSE
    ELSE IF Abs(track.dcaZ) > conf.ConfTrkDCAzMax THEN FALSE
    ELSE IF conf.ConfRejectNotPropagatedTracks /\ Abs(track.dcaXY) > 100000 THEN FALSE
    ELSE IF conf.ConfTrkRequireChi2MaxTPC
            /\ track.tpcChi2NCl >= conf.ConfTrkMaxChi2PerClusterTPC THEN FALSE
    ELSE IF conf.ConfTrkRequireChi2MaxITS
            /\ track.itsChi2NCl >= conf.ConfTrkMaxChi2PerClusterITS THEN FALSE
    ELSE IF conf.ConfTrkTPCRefit /\ ~track.hasTPC THEN FALSE
    ELSE IF conf.ConfTrkITSRefit /\ ~track.hasITS THEN FALSE
    ELSE TRUE
\* the charge of the daughter is not compared with the sign of the track
isSelectedV0DaughterAnySign(track, charge, species, nSigmaTPCDaug) ==
    LET nSigmaTPC == IF species = kDaughPion THEN nSigmaTPCDaug[2]
                     ELSE nSigmaTPCDaug[1]
    IN  IF Abs(track.eta) > conf.ConfDaughEta THEN FALSE
        ELSE IF track.tpcNClsFound < conf.ConfDaughTPCnclsMin THEN FALSE
        ELSE IF Abs(track.dcaXY) < conf.ConfDaughDCAMin THEN FALSE
        ELSE IF nSigmaTPC < Get(conf.ConfDaughPIDCuts, species, kTPCMin)
                \/ nSigmaTPC > Get(conf.ConfDaughPIDCuts, species, kTPCMax) THEN FALSE
        ELSE TRUE

\* nSigmaTPCDaug is the C array {proton, pion}, here a 1-based pair
isSelectedV0Daughter(track, charge, species, nSigmaTPCDaug) ==
    LET nSigmaTPC == IF species = kDaughPion THEN nSigmaTPCDaug[2]
                     ELSE nSigmaTPCDaug[1]
    IN  IF charge < 0 /\ track.sign > 0 THEN FALSE
        ELSE IF charge > 0 /\ track.sign < 0 THEN FALSE
        ELSE IF Abs(track.eta) > conf.ConfDaughEta THEN FALSE
        ELSE IF track.tpcNClsFound < conf.ConfDaughTPCnclsMin THEN FALSE
        ELSE IF Abs(track.dcaXY) < conf.ConfDaughDCAMin THEN FALSE
        ELSE IF nSigmaTPC < Get(conf.ConfDaughPIDCuts, species, kTPCMin)
                \/ nSigmaTPC > Get(conf.ConfDaughPIDCuts, species, kTPCMax) THEN FALSE
        ELSE TRUE

(***************************************************************************)
(* Home-made PID.  tpc::BetheBlochAleph belongs to the O2 library; the     *)
(* model keeps its signature and stands a rational expression in for the   *)
(* ALEPH parametrisation.                                                  *)
(***************************************************************************)
BetheBlochAleph(bg, kp1, kp2, kp3, kp4, kp5) ==
    FMul(kp1, kp2) + FDiv(kp3, bg + kp4) + kp5

updatePID(track, bgScaling, BB) ==
    LET expBethe == BetheBlochAleph(FMul(track.tpcInnerParam, bgScaling),
                                    BB[1], BB[2], BB[3], BB[4], BB[5])
        expSigma == FMul(expBethe, BB[6])
    IN  FDiv(track.tpcSignal - expBethe, expSigma)

setValuesBB(bunchCrossing, ccdbPath) ==
    LET h == CCDBObject(ccdbPath, bunchCrossing.timestamp)
    IN  IF ~h.found THEN << >>
        ELSE << h.bb1, h.bb2, h.bb3, h.bb4, h.bb5, h.Resolution >>


(***************************************************************************)
(* isSelectedTrackPID and the values it computes on the way.  nSigmaTPC is *)
(* the C array {proton, deuteron}, here a 1-based pair.                    *)
(***************************************************************************)
\* the regime is decided by the momentum at the TPC for every species
pThresOfTPCMomentum(track, partSpecies) ==
    track.tpcInnerParam <= conf.ConfPtCuts[partSpecies + 1].PThres

\* lines 747-759: the momentum-threshold regime, TRUE is "TPC only"
pThresOf(track, partSpecies) ==
    IF partSpecies = kDeuteron /\ conf.ConfDeuteronThPVMom
    THEN track.p <= conf.ConfPtCuts[partSpecies + 1].PThres
    ELSE track.tpcInnerParam <= conf.ConfPtCuts[partSpecies + 1].PThres

\* kLambda and unknown species end in LOG(fatal); nSigma keeps its initial value
nSigmaOf(track, partSpecies, nSigmaTPC, charge) ==
    CASE partSpecies = kProton ->
           IF pThresOf(track, partSpecies) THEN nSigmaTPC[1]
           ELSE IF charge > 0
                THEN Hypot(nSigmaTPC[1] - conf.ConfPIDTPCTOFAvg["Proton"]["TPC Avg"],
                           track.tofNSigmaPr - conf.ConfPIDTPCTOFAvg["Proton"]["TOF Avg"])
                ELSE Hypot(nSigmaTPC[1] - conf.ConfPIDTPCTOFAvg["AntiProton"]["TPC Avg"],
                           track.tofNSigmaPr - conf.ConfPIDTPCTOFAvg["AntiProton"]["TOF Avg"])
      [] partSpecies = kDeuteron ->
           IF pThresOf(track, partSpecies) THEN nSigmaTPC[2]
           ELSE IF charge > 0
                THEN Hypot(nSigmaTPC[2] - conf.ConfPIDTPCTOFAvg["Deuteron"]["TPC Avg"],
                           track.tofNSigmaDe - conf.ConfPIDTPCTOFAvg["Deuteron"]["TOF Avg"])
                ELSE Hypot(nSigmaTPC[2] - conf.ConfPIDTPCTOFAvg["AntiDeuteron"]["TPC Avg"],
                           track.tofNSigmaDe - conf.ConfPIDTPCTOFAvg["AntiDeuteron"]["TOF Avg"])
      [] OTHER -> -99900

\* the pion nSigma compared with the pion rejection window
nSigmaPiOf(track, charge) ==
    LET n0 == track.tpcNSigmaPi
        n1 == IF conf.ConfUseManualPIDpion /\ Len(bbVectors.BBPion) = 6 /\ charge > 0
              THEN updatePID(track, bgScalingPion, bbVectors.BBPion) ELSE n0
    IN  IF conf.ConfUseManualPIDpion /\ Len(bbVectors.BBAntipion) = 6 /\ charge < 0
        THEN updatePID(track, bgScalingPion, bbVectors.BBAntipion) ELSE n1

\* the electron nSigma compared with the electron rejection window
nSigmaElOf(track, charge) ==
    LET n0 == track.tpcNSigmaEl
        n1 == IF conf.ConfUseManualPIDel /\ Len(bbVectors.BBElectron) = 6 /\ charge < 0
              THEN updatePID(track, bgScalingElectron, bbVectors.BBElectron) ELSE n0
    IN  IF conf.ConfUseManualPIDel /\ Len(bbVectors.BBAntielectron) = 6 /\ charge > 0
        THEN updatePID(track, bgScalingElectron, bbVectors.BBAntielectron) ELSE n1

\* the rejection of lines 830-837: compatible with proton, pion or electron
isRejected(track, nSigmaTPC, charge) ==
    \/ /\ Get(conf.ConfPIDRejection, kRejProton, kTPCMin) < nSigmaTPC[1]
       /\ Get(conf.ConfPIDRejection, kRejProton, kTPCMax) > nSigmaTPC[1]
    \/ /\ Get(conf.ConfPIDRejection, kRejPion, kTPCMin) < nSigmaPiOf(track, charge)
       /\ Get(conf.ConfPIDRejection, kRejPion, kTPCMax) > nSigmaPiOf(track, charge)
    \/ /\ Get(conf.ConfPIDRejection, kRejElectron, kTPCMin) < nSigmaElOf(track, charge)
       /\ Get(conf.ConfPIDRejection, kRejElectron, kTPCMax) > nSigmaElOf(track, charge)

\* lines 792-810: the local isSelected
isSelectedOf(track, partSpecies, nSigmaTPC, charge) ==
    LET pThres == pThresOf(track, partSpecies)
        nSigma == nSigmaOf(track, partSpecies, nSigmaTPC, charge)
        cuts == IF charge > 0 THEN conf.ConfPIDCuts ELSE conf.ConfPIDCutsAnti
        TPCmin == Get(cuts, partSpecies, kTPCMin)
        TPCmax == Get(cuts, partSpecies, kTPCMax)
        TPCTOFmax == Get(cuts, partSpecies, kTPCTOF)
    IN  IF pThres THEN nSigma > TPCmin /\ nSigma < TPCmax
        ELSE nSigma < TPCTOFmax

\* the rejection is applied whatever the Rejection argument
isSelectedTrackPIDAlwaysRejecting(track, partSpecies, Rejection, nSigmaTPC, charge) ==
    IF isRejected(track, nSigmaTPC, charge) THEN FALSE
    ELSE isSelectedOf(track, partSpecies, nSigmaTPC, charge)

isSelectedTrackPID(track, partSpecies, Rejection, nSigmaTPC, charge) ==
    IF Rejection /\ isRejected(track, nSigmaTPC, charge) THEN FALSE
    ELSE isSelectedOf(track, partSpecies, nSigmaTPC, charge)

(***************************************************************************)
(* process(): the TPC nSigma pairs {proton, deuteron} of a track, for the  *)
(* positive and for the negative hypothesis.                               *)
(***************************************************************************)
nTPCSigmaP(track) ==
    << IF conf.ConfUseManualPIDproton /\ Len(bbVectors.BBProton) = 6
       THEN updatePID(track, bgScalingProton, bbVectors.BBProton)
       ELSE track.tpcNSigmaPr,
       IF conf.ConfUseManualPIDdeuteron /\ Len(bbVectors.BBDeuteron) = 6
       THEN updatePID(track, bgScalingDeuteron, bbVectors.BBDeuteron)
       ELSE track.tpcNSigmaDe >>

\* the negative hypothesis reads the vectors of the positive one
nTPCSigmaNFromParticle(track) ==
    << IF conf.ConfUseManualPIDproton /\ Len(bbVectors.BBProton) = 6
       THEN updatePID(track, bgScalingProton, bbVectors.BBProton)
       ELSE track.tpcNSigmaPr,
       IF conf.ConfUseManualPIDdeuteron /\ Len(bbVectors.BBDeuteron) = 6
       THEN updatePID(track, bgScalingDeuteron, bbVectors.BBDeuteron)
       ELSE track.tpcNSigmaDe >>

nTPCSigmaN(track) ==
    << IF conf.ConfUseManualPIDproton /\ Len(bbVectors.BBAntiproton) = 6
       THEN updatePID(track, bgScalingProton, bbVectors.BBAntiproton)
       ELSE track.tpcNSigmaPr,
       IF conf.ConfUseManualPIDdeuteron /\ Len(bbVectors.BBAntideuteron) = 6
       THEN updatePID(track, bgScalingDeuteron, bbVectors.BBAntideuteron)
       ELSE track.tpcNSigmaDe >>

(***************************************************************************)
(* process(): the CCDB lookups behind the run-number cache.                *)
(***************************************************************************)
\* line 989: the run number is read and compared only under these two options
usesRunCache == conf.ConfUseManualPIDproton \/ conf.ConfUseManualPIDdeuteron

\* a retry: look up again while nothing has been found
runChangedOrNothingFound(runNumber) ==
    \/ runNumber # lastRunNumber
    \/ \A n \in BBNames : bbVectors[n] = << >>

\* line 991
runChanged(runNumber) == runNumber # lastRunNumber

\* lines 993-1008: the vectors assigned on a run change, in order
loadedVectors ==
    (IF conf.ConfUseManualPIDproton \/ conf.ConfUseManualPIDdaughterProton
     THEN <<"BBProton", "BBAntiproton">> ELSE << >>)
    \o (IF conf.ConfUseManualPIDdeuteron
        THEN <<"BBDeuteron", "BBAntideuteron">> ELSE << >>)
    \o (IF conf.ConfUseManualPIDpion \/ conf.ConfUseManualPIDdaughterPion
        THEN <<"BBPion", "BBAntipion">> ELSE << >>)
    \o (IF conf.ConfUseManualPIDpion
        THEN <<"BBElectron", "BBAntielectron">> ELSE << >>)

\* the Configurable holding the CCDB path of a vector
ccdbPathOf(name) ==
    CASE name = "BBProton" -> conf.ConfPIDBBProton
      [] name = "BBAntiproton" -> conf.ConfPIDBBAntiProton
      [] name = "BBDeuteron" -> conf.ConfPIDBBDeuteron
      [] name = "BBAntideuteron" -> conf.ConfPIDBBAntiDeuteron
      [] name = "BBPion" -> conf.ConfPIDBBPion
      [] name = "BBAntipion" -> conf.ConfPIDBBAntiPion
      [] name = "BBElectron" -> conf.ConfPIDBBElectron
      [] name = "BBAntielectron" -> conf.ConfPIDBBAntiElectron

Range(seq) == { seq[i] : i \in DOMAIN seq }

\* the bunch crossing of a collision: col.bc_as<aod::BCsWithTimestamps>()
bcOf(c) == bcs[c.bcId]

\* the lookups sit inside the event selection
looksUpIfSelected(c) ==
    usesRunCache /\ runChanged(bcOf(c).runNumber) /\ isSelectedEvent(c)

\* does this call of process look parameters up?
looksUp(c) == usesRunCache /\ runChanged(bcOf(c).runNumber)


(***************************************************************************)
(* process(): histogram fills and output rows of one track.  A fill is     *)
(* <<histogram, entry>>; an entry is <<x>> or <<x, y>>.                    *)
(***************************************************************************)
Avg(species, what) == conf.ConfPIDTPCTOFAvg[species][what]

\* lines 1050-1052
fillsTracksBefore(track) ==
    << <<"TrackCuts/TracksBefore/fPtTrackBefore", <<track.pt>> >>,
       <<"TrackCuts/TracksBefore/fEtaTrackBefore", <<track.eta>> >>,
       <<"TrackCuts/TracksBefore/fPhiTrackBefore", <<track.phi>> >> >>

\* lines 1054-1071
fillsPositiveBefore(track) ==
    IF track.sign > 0
    THEN << <<"TrackCuts/TPCSignal/fTPCSignal", <<track.tpcInnerParam, track.tpcSignal>> >>,
            <<"TrackCuts/TPCSignal/fTPCSignalP", <<track.p, track.tpcSignal>> >> >>
         \o (IF isSelectedTrack(track, kProton)
             THEN << <<"TrackCuts/TPCSignal/fTPCSignalALLCUTS",
                       <<track.tpcInnerParam, track.tpcSignal>> >>,
                     <<"TrackCuts/TPCSignal/fTPCSignalALLCUTSP",
                       <<track.p, track.tpcSignal>> >>,
                     <<"TrackCuts/TracksBefore/fMomCorrelationAfterCuts",
                       <<track.p, track.tpcInnerParam>> >> >>
             ELSE << >>)
         \o << <<"TrackCuts/NSigmaBefore/fNsigmaTPCvsPProtonBefore",
                 <<track.tpcInnerParam, nTPCSigmaP(track)[1]>> >>,
               <<"TrackCuts/NSigmaBefore/fNsigmaTOFvsPProtonBefore",
                 <<track.tpcInnerParam, track.tofNSigmaPr>> >>,
               <<"TrackCuts/NSigmaBefore/fNsigmaTPCTOFvsPProtonBefore",
                 <<track.tpcInnerParam,
                   Hypot(nTPCSigmaP(track)[1] - Avg("Proton", "TPC Avg"),
                         track.tofNSigmaPr - Avg("Proton", "TOF Avg"))>> >> >>
    ELSE << >>

\* lines 1072-1088
fillsNegativeBefore(track) ==
    IF track.sign < 0
    THEN << <<"TrackCuts/TPCSignal/fTPCSignalAnti", <<track.tpcInnerParam, track.tpcSignal>> >>,
            <<"TrackCuts/TPCSignal/fTPCSignalAntiP", <<track.p, track.tpcSignal>> >> >>
         \o (IF isSelectedTrack(track, kProton)
             THEN << <<"TrackCuts/TPCSignal/fTPCSignalAntiALLCUTS",
                       <<track.tpcInnerParam, track.tpcSignal>> >>,
                     <<"TrackCuts/TPCSignal/fTPCSignalAntiALLCUTSP",
                       <<track.p, track.tpcSignal>> >> >>
             ELSE << >>)
         \o << <<"TrackCuts/NSigmaBefore/fNsigmaTPCvsPAntiProtonBefore",
                 <<track.tpcInnerParam, nTPCSigmaN(track)[1]>> >>,
               <<"TrackCuts/NSigmaBefore/fNsigmaTOFvsPAntiProtonBefore",
                 <<track.tpcInnerParam, track.tofNSigmaPr>> >>,
               <<"TrackCuts/NSigmaBefore/fNsigmaTPCTOFvsPAntiProtonBefore",
                 <<track.tpcInnerParam,
                   Hypot(nTPCSigmaN(track)[1] - Avg("Proton", "TPC Avg"),
                         track.tofNSigmaPr - Avg("Proton", "TOF Avg"))>> >> >>
    ELSE << >>

\* lines 1091-1092: the track is written as a proton
isProton(track) ==
    /\ isSelectedTrack(track, kProton)
    /\ track.sign > 0
    /\ isSelectedTrackPID(track, kProton, FALSE, nTPCSigmaP(track), 1)

\* lines 1091, 1122: the track is written as an antiproton
isAntiProton(track) ==
    /\ isSelectedTrack(track, kProton)
    /\ track.sign < 0
    /\ isSelectedTrackPID(track, kProton, FALSE, nTPCSigmaN(track), -1)

\* lines 1105-1120
fillsProton(track) ==
    IF isProton(track)
    THEN << <<"TrackCuts/TPCSignal/fTPCSignalProton", <<track.tpcInnerParam, track.tpcSignal>> >>,
            <<"TrackCuts/Proton/fPProton", <<track.p>> >>,
            <<"TrackCuts/Proton/fPTPCProton", <<track.tpcInnerParam>> >>,
            <<"TrackCuts/Proton/fPtProton", <<track.pt>> >>,
            <<"TrackCuts/Proton/fEtaProton", <<track.eta>> >>,
            <<"TrackCuts/Proton/fPhiProton", <<track.phi>> >>,
            <<"TrackCuts/Proton/fNsigmaTPCvsPProton",
              <<track.tpcInnerParam, nTPCSigmaP(track)[1]>> >>,
            <<"TrackCuts/Proton/fNsigmaTOFvsPProton",
              <<track.tpcInnerParam, track.tofNSigmaPr>> >>,
            <<"TrackCuts/Proton/fNsigmaTPCTOFvsPProton",
              <<track.tpcInnerParam,
                Hypot(nTPCSigmaP(track)[1] - Avg("Proton", "TPC Avg"),
                      track.tofNSigmaPr - Avg("Proton", "TOF Avg"))>> >>,
            <<"TrackCuts/Proton/fDCAxyProton", <<track.dcaXY>> >>,
            <<"TrackCuts/Proton/fDCAzProton", <<track.dcaZ>> >>,
            <<"TrackCuts/Proton/fTPCsClsProton", <<track.tpcNClsShared>> >>,
            <<"TrackCuts/Proton/fTPCcRowsProton", <<track.tpcNClsCrossedRows>> >>,
            <<"TrackCuts/Proton/fTrkTPCfClsProton", <<track.tpcCrossedRowsOverFindableCls>> >>,
            <<"TrackCuts/Proton/fTPCnclsProton", <<track.tpcNClsFound>> >> >>
    ELSE << >>

\* lines 1135-1148
fillsAntiProton(track) ==
    IF isAntiProton(track)
    THEN << <<"TrackCuts/TPCSignal/fTPCSignalAntiProton",
              <<track.tpcInnerParam, track.tpcSignal>> >>,
            <<"TrackCuts/AntiProton/fPtAntiProton", <<track.pt>> >>,
            <<"TrackCuts/AntiProton/fEtaAntiProton", <<track.eta>> >>,
            <<"TrackCuts/AntiProton/fPhiAntiProton", <<track.phi>> >>,
            <<"TrackCuts/AntiProton/fNsigmaTPCvsPAntiProton",
              <<track.tpcInnerParam, nTPCSigmaN(track)[1]>> >>,
            <<"TrackCuts/AntiProton/fNsigmaTOFvsPAntiProton",
              <<track.tpcInnerParam, track.tofNSigmaPr>> >>,
            <<"TrackCuts/AntiProton/fNsigmaTPCTOFvsPAntiProton",
              <<track.tpcInnerParam,
                Hypot(nTPCSigmaN(track)[1] - Avg("AntiProton", "TPC Avg"),
                      track.tofNSigmaPr - Avg("AntiProton", "TOF Avg"))>> >>,
            <<"TrackCuts/AntiProton/fDCAxyAntiProton", <<track.dcaXY>> >>,
            <<"TrackCuts/AntiProton/fDCAzAntiProton", <<track.dcaZ>> >>,
            <<"TrackCuts/AntiProton/fTPCsClsAntiProton", <<track.tpcNClsShared>> >>,
            <<"TrackCuts/AntiProton/fTPCcRowsAntiProton", <<track.tpcNClsCrossedRows>> >>,
            <<"TrackCuts/AntiProton/fTrkTPCfClsAntiProton",
              <<track.tpcCrossedRowsOverFindableCls>> >>,
            <<"TrackCuts/AntiProton/fTPCnclsAntiProton", <<track.tpcNClsFound>> >> >>
    ELSE << >>

\* everything the loop body fills for one track, in order
fillsOfTrack(track) ==
    fillsTracksBefore(track) \o fillsPositiveBefore(track) \o fillsNegativeBefore(track)
    \o fillsProton(track) \o fillsAntiProton(track)

\* a row of outputParts (lines 1093-1103 and 1123-1133); collisionId is
\* outputCollision.lastIndex(), the 0-based index of the row written last
\* the bits are cast to uint32_t, which keeps the value of the non-negative
\* bits every configuration here has
partRow(track, cutBit) ==
    [ collisionId |-> Len(outputCollision) - 1,
      pt |-> track.pt, eta |-> track.eta, phi |-> track.phi,
      partType |-> "kTrack",
      cut |-> cutBit,
      pidcut |-> conf.ConfPidBitProton,
      tempFitVar |-> track.dcaXY,
      childrenIds |-> <<0, 0>>,
      mLambda |-> 0, mAntiLambda |-> 0 ]
\* both charges are written with the cut bit of the particle
rowsOfTrackOneCutBit(track) ==
    (IF isProton(track) THEN << partRow(track, conf.ConfCutBitPart) >> ELSE << >>)
    \o (IF isAntiProton(track) THEN << partRow(track, conf.ConfCutBitPart) >> ELSE << >>)

rowsOfTrack(track) ==
    (IF isProton(track) THEN << partRow(track, conf.ConfCutBitPart) >> ELSE << >>)
    \o (IF isAntiProton(track) THEN << partRow(track, conf.ConfCutBitAntiPart) >> ELSE << >>)

RECURSIVE fillsOfTracks(_)
fillsOfTracks(trks) ==
    IF trks = << >> THEN << >>
    ELSE fillsOfTrack(Head(trks)) \o fillsOfTracks(Tail(trks))

RECURSIVE rowsOfTracks(_)
rowsOfTracks(trks) ==
    IF trks = << >> THEN << >>
    ELSE rowsOfTrack(Head(trks)) \o rowsOfTracks(Tail(trks))

\* line 1021
collisionRow(c) == << c.posZ, c.multFV0M, c.multNTracksPV, -2, -2 >>
\* the After histograms are filled for every event
fillsOfEventAfterAlways(c, trks) ==
    << <<"EventCuts/fMultiplicityBefore", <<c.multNTracksPV>> >>,
       <<"EventCuts/fZvtxBefore", <<c.posZ>> >>,
       <<"EventCuts/fMultiplicityAfter", <<c.multNTracksPV>> >>,
       <<"EventCuts/fZvtxAfter", <<c.posZ>> >> >>
    \o (IF isSelectedEvent(c) THEN fillsOfTracks(trks) ELSE << >>)

\* lines 1013-1014, 1022-1023 and the track loop
fillsOfEvent(c, trks) ==
    << <<"EventCuts/fMultiplicityBefore", <<c.multNTracksPV>> >>,
       <<"EventCuts/fZvtxBefore", <<c.posZ>> >> >>
    \o (IF isSelectedEvent(c)
        THEN << <<"EventCuts/fMultiplicityAfter", <<c.multNTracksPV>> >>,
                <<"EventCuts/fZvtxAfter", <<c.posZ>> >> >>
             \o fillsOfTracks(trks)
        ELSE << >>)

\* the entries that a sequence of fills adds to histogram h, in order
entriesOf(h, fills) ==
    LET sel == SelectSeq(fills, LAMBDA f : f[1] = h)
    IN  [i \in 1..Len(sel) |-> sel[i][2]]

\* registry.fill, for a sequence of fills
filled(reg, fills) == [h \in DOMAIN reg |-> reg[h] \o entriesOf(h, fills)]


(***************************************************************************)
(* The state after construction and init().                                *)
(***************************************************************************)
Init ==
    /\ conf \in Confs
    /\ pc = "idle"
    /\ nProcessed = 0
    /\ col = NoCollision
    /\ bcs = BCs
    /\ tracks = << >>
    /\ fullV0s = << >>
    /\ currentRunNumber = -999
    /\ lastRunNumber = -999
    /\ bbVectors = [n \in BBNames |-> << >>]
    /\ registry = [h \in HistNames |-> << >>]
    /\ outputCollision = << >>
    /\ outputParts = << >>
    /\ ccdbRequests = << >>
    /\ call = NoCall

(***************************************************************************)
(* The framework groups the tables by collision and is about to call       *)
(* process() with one collision, its tracks and its V0s.                   *)
(***************************************************************************)
Deliver(max) ==
    /\ pc = "idle"
    /\ call = NoCall
    /\ nProcessed < max
    /\ \E ev \in Events :
          /\ col' = ev.col
          /\ tracks' = ev.tracks
          /\ fullV0s' = ev.fullV0s
    /\ pc' = "ready"
    /\ UNCHANGED << conf, nProcessed, bcs, currentRunNumber, lastRunNumber, bbVectors,
                    registry, outputCollision, outputParts, ccdbRequests, call >>

(***************************************************************************)
(* process().                                                              *)
(***************************************************************************)
\* the run-2 check logs without ending the task
abortsRun2Never == FALSE

\* lines 986-988: LOG(fatal) ends the task before anything else is done
abortsRun2 == ~conf.ConfIsRun3

\* no run-number cache: the vectors are looked up on every call
vectorsAfterEveryCall(c) ==
    IF usesRunCache
    THEN [n \in BBNames |-> IF n \in Range(loadedVectors)
                            THEN setValuesBB(bcOf(c), ccdbPathOf(n))
                            ELSE bbVectors[n]]
    ELSE bbVectors

\* lines 990-1009: the vectors after the lookups of this call
vectorsAfter(c) ==
    IF looksUp(c)
    THEN [n \in BBNames |-> IF n \in Range(loadedVectors)
                            THEN setValuesBB(bcOf(c), ccdbPathOf(n))
                            ELSE bbVectors[n]]
    ELSE bbVectors

\* the retrieveFromTFileAny calls of this call, each with the timestamp of
\* the collision's bunch crossing
requestsOf(c) ==
    IF looksUp(c)
    THEN [i \in 1..Len(loadedVectors) |->
            << ccdbPathOf(loadedVectors[i]), bcOf(c).timestamp >>]
    ELSE << >>

\* line 1009
lastRunAfter(c) == IF looksUp(c) THEN bcOf(c).runNumber ELSE lastRunNumber

\* the row is written outside the event selection
collisionsAfterUnselected(c) == Append(outputCollision, collisionRow(c))

\* the collision table is rewritten for each selected event
collisionsAfterKeepingLast(c) ==
    IF isSelectedEvent(c) THEN << collisionRow(c) >> ELSE outputCollision

\* lines 1019-1021
collisionsAfter(c) ==
    IF isSelectedEvent(c) THEN Append(outputCollision, collisionRow(c))
    ELSE outputCollision

\* the outputParts rows of this call: the track loop runs inside the
\* event selection
partsOf(c, trks) == IF isSelectedEvent(c) THEN rowsOfTracks(trks) ELSE << >>

process ==
    /\ pc = "ready"
    /\ IF abortsRun2
       THEN /\ pc' = "fatal"
            /\ UNCHANGED << conf, nProcessed, col, bcs, tracks, fullV0s, currentRunNumber,
                            lastRunNumber, bbVectors, registry, outputCollision,
                            outputParts, ccdbRequests, call >>
       ELSE /\ UNCHANGED << conf, col, bcs, tracks, fullV0s, call >>
            /\ currentRunNumber' = IF usesRunCache THEN bcOf(col).runNumber
                                   ELSE currentRunNumber
            /\ lastRunNumber' = lastRunAfter(col)
            /\ bbVectors' = vectorsAfter(col)
            /\ ccdbRequests' = ccdbRequests \o requestsOf(col)
            /\ outputCollision' = collisionsAfter(col)
            \* the fills and rows are computed with the vectors and the
            \* collision table as this call has left them
            /\ \E fills \in { fillsOfEvent(col, tracks)' } :
                  registry' = filled(registry, fills)
            /\ outputParts' = outputParts \o partsOf(col, tracks)'
            /\ pc' = "idle"
            /\ nProcessed' = nProcessed + 1

NextEvent == Deliver(MaxEvents)

Next == NextEvent \/ process

Spec == Init /\ [][Next]_vars

(***************************************************************************)
(* Direct calls of the member predicates, in any state process() has left  *)
(* the task in, on arguments drawn from small sets.  A call records its    *)
(* arguments, the values it compares and its result; it assigns no member. *)
(* A behaviour makes one direct call, after its events.                    *)
(***************************************************************************)
\* a track whose TPC signal lies on the expected pion and electron curves
tOnCurve == TrackWith([tpcSignal |-> 2500])
\* a track whose momentum at the vertex and at the TPC differ around the thresholds
tAroundThres == TrackWith([tpcInnerParam |-> 70, p |-> 80, tpcChi2NCl |-> 400,
                           itsChi2NCl |-> 3600, dcaXY |-> 4])

CallCollisions ==
    { [posZ |-> z, sel8 |-> s, multNTracksPV |-> 1, multFV0M |-> 1, bcId |-> 1] :
        z \in {-1001, -1000, 0, 1000, 1001}, s \in BOOLEAN }
\* the same with the two momenta exchanged
tAboveAtTPC == TrackWith([tpcInnerParam |-> 80, p |-> 70])

\* a track compatible with the electron hypothesis only
tElectronLike == TrackWith([tpcNSigmaEl |-> 50])

CallTracks == { tPos, tNeg, tOnCurve, tAroundThres, tAboveAtTPC, tElectronLike }
CallSpecies == { kProton, kDeuteron }
CallNSigmaTPC == { <<300, 100>>, <<100, 700>> }
CallCharges == { 1, -1 }

callIsSelectedEvent ==
    /\ pc = "idle"
    /\ call = NoCall
    /\ \E c \in CallCollisions :
          call' = [fn |-> "isSelectedEvent", col |-> c, ret |-> isSelectedEvent(c)]
    /\ UNCHANGED << conf, pc, nProcessed, col, bcs, tracks, fullV0s, currentRunNumber,
                    lastRunNumber, bbVectors, registry, outputCollision, outputParts,
                    ccdbRequests >>

callIsSelectedTrack ==
    /\ pc = "idle"
    /\ call = NoCall
    /\ \E track \in CallTracks, partSpecies \in CallSpecies :
          call' = [fn |-> "isSelectedTrack", track |-> track, partSpecies |-> partSpecies,
                   ret |-> isSelectedTrack(track, partSpecies)]
    /\ UNCHANGED << conf, pc, nProcessed, col, bcs, tracks, fullV0s, currentRunNumber,
                    lastRunNumber, bbVectors, registry, outputCollision, outputParts,
                    ccdbRequests >>

callIsSelectedV0Daughter ==
    /\ pc = "idle"
    /\ call = NoCall
    /\ \E track \in CallTracks, charge \in CallCharges,
          species \in {kDaughPion, kDaughProton}, nSigmaTPCDaug \in CallNSigmaTPC :
          call' = [fn |-> "isSelectedV0Daughter", track |-> track, charge |-> charge,
                   species |-> species, nSigmaTPCDaug |-> nSigmaTPCDaug,
                   ret |-> isSelectedV0Daughter(track, charge, species, nSigmaTPCDaug)]
    /\ UNCHANGED << conf, pc, nProcessed, col, bcs, tracks, fullV0s, currentRunNumber,
                    lastRunNumber, bbVectors, registry, outputCollision, outputParts,
                    ccdbRequests >>

callIsSelectedTrackPID ==
    /\ pc = "idle"
    /\ call = NoCall
    /\ \E track \in CallTracks, partSpecies \in CallSpecies, Rejection \in BOOLEAN,
          nSigmaTPC \in CallNSigmaTPC, charge \in CallCharges :
          call' = [fn |-> "isSelectedTrackPID", track |-> track,
                   partSpecies |-> partSpecies, Rejection |-> Rejection,
                   nSigmaTPC |-> nSigmaTPC, charge |-> charge,
                   pThres |-> pThresOf(track, partSpecies),
                   nSigmaPi |-> nSigmaPiOf(track, charge),
                   nSigmaEl |-> nSigmaElOf(track, charge),
                   ret |-> isSelectedTrackPID(track, partSpecies, Rejection,
                                              nSigmaTPC, charge)]
    /\ UNCHANGED << conf, pc, nProcessed, col, bcs, tracks, fullV0s, currentRunNumber,
                    lastRunNumber, bbVectors, registry, outputCollision, outputParts,
                    ccdbRequests >>

NextCallEvent == Deliver(MaxCallEvents)

NextCalls ==
    \/ NextCallEvent
    \/ process
    \/ callIsSelectedEvent
    \/ callIsSelectedTrack
    \/ callIsSelectedV0Daughter
    \/ callIsSelectedTrackPID

SpecCalls == Init /\ [][NextCalls]_vars


(***************************************************************************)
(* Properties.                                                             *)
(***************************************************************************)
IsPrefix(s, t) == Len(s) <= Len(t) /\ SubSeq(t, 1, Len(s)) = s

\* a step in which process() runs to its end
processReturns == pc = "ready" /\ pc' = "idle"

\* what a step appends to a sequence-valued variable
appendedTo(old, new) == SubSeq(new, Len(old) + 1, Len(new))

positiveTracks == SelectSeq(tracks, LAMBDA t : t.sign > 0)
negativeTracks == SelectSeq(tracks, LAMBDA t : t.sign < 0)

\* C1: with ConfIsRun3 false, process ends in the fatal error before it
\* does anything: it never returns, no CCDB request is made, no histogram
\* is filled, no row is written, and the run-number cache and the
\* Bethe-Bloch vectors keep their initial values.
C1_Run2FatalBeforeAnything ==
    ~conf.ConfIsRun3 =>
        /\ nProcessed = 0
        /\ ccdbRequests = << >>
        /\ \A h \in HistNames : registry[h] = << >>
        /\ outputCollision = << >>
        /\ outputParts = << >>
        /\ currentRunNumber = -999
        /\ lastRunNumber = -999
        /\ \A n \in BBNames : bbVectors[n] = << >>

C1_Witness ==
    /\ ~conf.ConfIsRun3
    /\ pc = "fatal"
    /\ conf.ConfUseManualPIDproton
    /\ isSelectedEvent(col)
    /\ tracks # << >>

\* C2: a lookup that finds no object leaves the vector empty and process
\* still returns; while BBProton (BBAntiproton) is empty, the proton nSigma
\* filled and selected on for every positive (negative) track is the
\* track's own tpcNSigmaPr.
C2_MissingObjectFallsBackToNominal ==
    [][ processReturns =>
          /\ \A n \in BBNames :
                ( /\ looksUp(col)
                  /\ n \in Range(loadedVectors)
                  /\ ~CCDBObject(ccdbPathOf(n), bcOf(col).timestamp).found )
                => bbVectors'[n] = << >>
          /\ (isSelectedEvent(col) /\ bbVectors'.BBProton = << >>) =>
                /\ appendedTo(registry["TrackCuts/NSigmaBefore/fNsigmaTPCvsPProtonBefore"],
                              registry'["TrackCuts/NSigmaBefore/fNsigmaTPCvsPProtonBefore"])
                   = [i \in 1..Len(positiveTracks) |->
                        << positiveTracks[i].tpcInnerParam, positiveTracks[i].tpcNSigmaPr >>]
                /\ Len(SelectSeq(appendedTo(outputParts, outputParts'),
                                 LAMBDA r : r.cut = conf.ConfCutBitPart))
                   = Len(SelectSeq(positiveTracks,
                           LAMBDA t : /\ isSelectedTrack(t, kProton)
                                      /\ isSelectedTrackPID(t, kProton, FALSE,
                                            <<t.tpcNSigmaPr, t.tpcNSigmaDe>>, 1)))
          /\ (isSelectedEvent(col) /\ bbVectors'.BBAntiproton = << >>) =>
                /\ appendedTo(registry["TrackCuts/NSigmaBefore/fNsigmaTPCvsPAntiProtonBefore"],
                              registry'["TrackCuts/NSigmaBefore/fNsigmaTPCvsPAntiProtonBefore"])
                   = [i \in 1..Len(negativeTracks) |->
                        << negativeTracks[i].tpcInnerParam, negativeTracks[i].tpcNSigmaPr >>]
                /\ Len(SelectSeq(appendedTo(outputParts, outputParts'),
                                 LAMBDA r : r.cut = conf.ConfCutBitAntiPart))
                   = Len(SelectSeq(negativeTracks,
                           LAMBDA t : /\ isSelectedTrack(t, kProton)
                                      /\ isSelectedTrackPID(t, kProton, FALSE,
                                            <<t.tpcNSigmaPr, t.tpcNSigmaDe>>, -1)))
      ]_vars

\* the antiproton object was missing, the proton object was found, and a
\* negative track whose home-made nSigma would differ has been processed
C2_Witness ==
    /\ pc = "idle"
    /\ nProcessed = 1
    /\ conf.ConfUseManualPIDproton
    /\ isSelectedEvent(col)
    /\ bbVectors.BBAntiproton = << >>
    /\ Len(bbVectors.BBProton) = 6
    /\ \E i \in DOMAIN tracks :
          /\ tracks[i].sign < 0
          /\ updatePID(tracks[i], bgScalingProton, bbVectors.BBProton)
               # tracks[i].tpcNSigmaPr
    /\ registry["TrackCuts/NSigmaBefore/fNsigmaTPCvsPAntiProtonBefore"] # << >>

\* C3: with ConfUseManualPIDproton or ConfUseManualPIDdeuteron, a process
\* call makes CCDB requests exactly when the event's run number differs from
\* lastRunNumber, selected event or not; every request carries the timestamp
\* of the event's bunch crossing; afterwards lastRunNumber is the event's
\* run number.
C3_RunNumberCache ==
    [][ (processReturns /\ usesRunCache) =>
          /\ IsPrefix(ccdbRequests, ccdbRequests')
          /\ (ccdbRequests' # ccdbRequests) <=> (bcOf(col).runNumber # lastRunNumber)
          /\ \A i \in (Len(ccdbRequests) + 1)..Len(ccdbRequests') :
                ccdbRequests'[i][2] = bcOf(col).timestamp
          /\ lastRunNumber' = bcOf(col).runNumber
      ]_vars

\* the first event fails the event selection and has been looked up for
C3_Witness ==
    /\ pc = "idle"
    /\ nProcessed = 1
    /\ usesRunCache
    /\ ~isSelectedEvent(col)
    /\ ccdbRequests # << >>
    /\ lastRunNumber = bcOf(col).runNumber

\* the run a timestamp belongs to
runOfTimestamp(ts) == (CHOOSE i \in DOMAIN bcs : bcs[i].timestamp = ts)

\* C4 as stated: once requests have been made for a run number, no event
\* that follows with that run number causes a request.
C4_NoRequestForKnownRun ==
    [][ ( /\ processReturns
          /\ \E i \in DOMAIN ccdbRequests :
                bcs[runOfTimestamp(ccdbRequests[i][2])].runNumber = bcOf(col).runNumber )
        => ccdbRequests' = ccdbRequests
      ]_vars

\* C4, amended: an event whose run number equals lastRunNumber causes no
\* request and leaves the vectors as they are, whatever the earlier lookups
\* found; and a call whose lookups all find nothing still sets lastRunNumber
\* to the event's run number.
C4_NoRetryWhileRunUnchanged ==
    [][ processReturns =>
          /\ (usesRunCache /\ bcOf(col).runNumber = lastRunNumber) =>
                (ccdbRequests' = ccdbRequests /\ bbVectors' = bbVectors)
          /\ ( /\ ccdbRequests' # ccdbRequests
               /\ \A i \in (Len(ccdbRequests) + 1)..Len(ccdbRequests') :
                     ~CCDBObject(ccdbRequests'[i][1], ccdbRequests'[i][2]).found )
             => lastRunNumber' = bcOf(col).runNumber
      ]_vars

\* the first event of the run found nothing; a later event of the same run,
\* at a timestamp where the objects exist, has been processed without a request
C4_Witness ==
    /\ pc = "idle"
    /\ nProcessed = 2
    /\ usesRunCache
    /\ lastRunNumber = bcOf(col).runNumber
    /\ Len(ccdbRequests) = Len(loadedVectors)
    /\ \A n \in BBNames : bbVectors[n] = << >>
    /\ \A n \in Range(loadedVectors) :
          CCDBObject(ccdbPathOf(n), bcOf(col).timestamp).found

\* C5: a process call (Run-3 mode) that returns appends exactly one row to
\* outputCollision when the event passes isSelectedEvent, and none otherwise.
C5_OneCollisionRowPerSelectedEvent ==
    [][ processReturns =>
          IF isSelectedEvent(col)
          THEN outputCollision'
                 = Append(outputCollision,
                          << col.posZ, col.multFV0M, col.multNTracksPV, -2, -2 >>)
          ELSE outputCollision' = outputCollision
      ]_vars

C5_Witness ==
    /\ pc = "idle"
    /\ nProcessed = 3
    /\ Len(outputCollision) = 2
    /\ ~isSelectedEvent(col)


protonNSigmaUnder(t, v) ==
    IF conf.ConfUseManualPIDproton /\ Len(v) = 6
    THEN updatePID(t, bgScalingProton, v)
    ELSE t.tpcNSigmaPr

resultsIgnoringRejection ==
    << [track \in CallTracks, partSpecies \in CallSpecies |->
          isSelectedTrack(track, partSpecies)],
       [track \in CallTracks, charge \in CallCharges,
        species \in {kDaughPion, kDaughProton}, nSigmaTPCDaug \in CallNSigmaTPC |->
          isSelectedV0Daughter(track, charge, species, nSigmaTPCDaug)],
       [track \in CallTracks, partSpecies \in CallSpecies,
        nSigmaTPC \in CallNSigmaTPC, charge \in CallCharges |->
          isSelectedTrackPID(track, partSpecies, FALSE, nSigmaTPC, charge)] >>

resultsWithRejection ==
    [track \in CallTracks, partSpecies \in CallSpecies,
     nSigmaTPC \in CallNSigmaTPC, charge \in CallCharges |->
       isSelectedTrackPID(track, partSpecies, TRUE, nSigmaTPC, charge)]

\* C7 as stated: whatever is processed, the result of each of the three
\* predicates on given arguments stays the same, and a call leaves every
\* member as it was.
C7_PredicatesStateless ==
    [][ /\ resultsIgnoringRejection' = resultsIgnoringRejection
        /\ resultsWithRejection' = resultsWithRejection
        /\ (call' # call) => (members' = members)
      ]_vars

\* C7, amended: isSelectedTrack, isSelectedV0Daughter, and isSelectedTrackPID
\* called with Rejection false or under a configuration with neither
\* ConfUseManualPIDpion nor ConfUseManualPIDel, return the same result on
\* the same arguments whatever is processed; a call leaves every member as
\* it was and returns what the predicate computes.
C7_StatelessUnlessManualRejection ==
    [][ /\ resultsIgnoringRejection' = resultsIgnoringRejection
        /\ (~conf.ConfUseManualPIDpion /\ ~conf.ConfUseManualPIDel)
              => resultsWithRejection' = resultsWithRejection
        /\ (call' # call) => (members' = members)
        /\ (call' # call /\ call'.fn = "isSelectedTrackPID" /\ ~call'.Rejection)
              => call'.ret = resultsIgnoringRejection[3][call'.track, call'.partSpecies,
                                                         call'.nSigmaTPC, call'.charge]
      ]_vars

\* isSelectedTrackPID has been called without rejection after an event that
\* loaded the pion vector, on a track the rejection would have thrown out
C7_Witness ==
    /\ call.fn = "isSelectedTrackPID"
    /\ ~call.Rejection
    /\ call.ret
    /\ nProcessed = 1
    /\ conf.ConfUseManualPIDpion
    /\ Len(bbVectors.BBPion) = 6
    /\ isRejected(call.track, call.nSigmaTPC, call.charge)

\* C8: the output tables only grow, by appending: every row written stays
\* where and as it was; and process leaves its input tables as they are.
C8_AppendOnlyReadOnly ==
    [][ /\ IsPrefix(outputCollision, outputCollision')
        /\ IsPrefix(outputParts, outputParts')
        /\ (pc = "ready") => (inputs' = inputs)
      ]_vars

C8_Witness ==
    /\ pc = "idle"
    /\ nProcessed = 3
    /\ Len(outputCollision) = 3
    /\ Len(outputParts) >= 3
    /\ tracks # << >>

\* C9: isSelectedEvent returns false exactly when the z-vertex cut is on and
\* posZ lies beyond +-ConfEvtZvtx, or the offline check is on and sel8 is
\* false.
C9_EventSelection ==
    (call.fn = "isSelectedEvent") =>
        ( call.ret
          <=> ~( \/ /\ conf.ConfEvtSelectZvtx
                    /\ \/ call.col.posZ > conf.ConfEvtZvtx
                       \/ call.col.posZ < -conf.ConfEvtZvtx
                 \/ /\ conf.ConfEvtOfflineCheck
                    /\ ~call.col.sel8 ) )

\* an event exactly on the limit has been accepted
C9_Witness ==
    /\ call.fn = "isSelectedEvent"
    /\ conf.ConfEvtSelectZvtx
    /\ call.col.posZ = -conf.ConfEvtZvtx
    /\ call.ret

\* the bunch crossings of the run of the event processed last
bcsOfCurrentRun ==
    { i \in DOMAIN bcs : bcs[i].runNumber = bcOf(col).runNumber }

\* the path of the electron object for a track of this charge
electronPathOf(charge) ==
    IF charge < 0 THEN conf.ConfPIDBBElectron ELSE conf.ConfPIDBBAntiElectron

\* C10: with ConfUseManualPIDel and Rejection, whenever the electron
\* (anti-electron) object exists for the current run, the electron nSigma
\* that isSelectedTrackPID compares is the one updatePID computes from it,
\* whatever ConfUseManualPIDpion is.
C10_ManualElectronNSigma ==
    ( /\ call.fn = "isSelectedTrackPID"
      /\ call.Rejection
      /\ conf.ConfUseManualPIDel
      /\ nProcessed >= 1
      /\ \A i \in bcsOfCurrentRun :
            CCDBObject(electronPathOf(call.charge), bcs[i].timestamp).found )
    => call.nSigmaEl \in
          { updatePID(call.track, bgScalingElectron,
                      setValuesBB(bcs[i], electronPathOf(call.charge))) :
              i \in bcsOfCurrentRun }

\* C11: a process call whose run number differs from lastRunNumber requests
\* the pion objects when ConfUseManualPIDpion or ConfUseManualPIDdaughterPion
\* is set, and the proton objects when ConfUseManualPIDdaughterProton is
\* set, also with ConfUseManualPIDproton and ConfUseManualPIDdeuteron both
\* false.
C11_EachManualOptionLooksUp ==
    [][ (processReturns /\ bcOf(col).runNumber # lastRunNumber) =>
          /\ (conf.ConfUseManualPIDpion \/ conf.ConfUseManualPIDdaughterPion) =>
                {<< conf.ConfPIDBBPion, bcOf(col).timestamp >>,
                 << conf.ConfPIDBBAntiPion, bcOf(col).timestamp >>}
                   \subseteq Range(appendedTo(ccdbRequests, ccdbRequests'))
          /\ conf.ConfUseManualPIDdaughterProton =>
                {<< conf.ConfPIDBBProton, bcOf(col).timestamp >>,
                 << conf.ConfPIDBBAntiProton, bcOf(col).timestamp >>}
                   \subseteq Range(appendedTo(ccdbRequests, ccdbRequests'))
      ]_vars

\* the tracks of the event that process writes to outputParts, in order
writtenTracks == SelectSeq(tracks, LAMBDA t : isProton(t) \/ isAntiProton(t))

\* C12: the rows process appends to outputParts are one per selected track,
\* in track order; the row of a positive track carries ConfCutBitPart, the
\* row of a negative track ConfCutBitAntiPart, and every row carries
\* ConfPidBitProton, the particle type kTrack and the child IDs {0, 0}.
C12_CutBitsOfRows ==
    [][ processReturns =>
          \E rows \in { appendedTo(outputParts, outputParts') } :
          \E written \in { IF isSelectedEvent(col) THEN writtenTracks' ELSE << >> } :
             /\ Len(rows) = Len(written)
             /\ \A i \in DOMAIN rows :
                   /\ rows[i].cut = IF written[i].sign > 0
                                    THEN conf.ConfCutBitPart
                                    ELSE conf.ConfCutBitAntiPart
                   /\ rows[i].pidcut = conf.ConfPidBitProton
                   /\ rows[i].partType = "kTrack"
                   /\ rows[i].childrenIds = <<0, 0>>
                   /\ rows[i].pt = written[i].pt
      ]_vars

\* the event processed last wrote a row for a positive and one for a
\* negative track
C12_Witness ==
    /\ pc = "idle"
    /\ nProcessed >= 1
    /\ \E i, j \in DOMAIN outputParts :
          /\ outputParts[i].collisionId = Len(outputCollision) - 1
          /\ outputParts[j].collisionId = Len(outputCollision) - 1
          /\ outputParts[i].cut = conf.ConfCutBitPart
          /\ outputParts[j].cut = conf.ConfCutBitAntiPart
    /\ \E i, j \in DOMAIN tracks : tracks[i].sign > 0 /\ tracks[j].sign < 0
    /\ conf.ConfCutBitPart # conf.ConfCutBitAntiPart

\* C13: isSelectedTrackPID decides the momentum-threshold regime for
\* kDeuteron with ConfDeuteronThPVMom from track.p() <= 'P thres', whatever
\* tpcInnerParam is; for kProton, and for kDeuteron without the option, from
\* tpcInnerParam <= 'P thres'.
C13_ThresholdMomentum ==
    (call.fn = "isSelectedTrackPID") =>
        ( call.pThres
          <=> IF call.partSpecies = kDeuteron /\ conf.ConfDeuteronThPVMom
              THEN call.track.p <= conf.ConfPtCuts[call.partSpecies + 1].PThres
              ELSE call.track.tpcInnerParam
                      <= conf.ConfPtCuts[call.partSpecies + 1].PThres )

\* a deuteron call under ConfDeuteronThPVMom on a track below the threshold
\* at the TPC and above it at the vertex
C13_Witness ==
    /\ call.fn = "isSelectedTrackPID"
    /\ call.partSpecies = kDeuteron
    /\ conf.ConfDeuteronThPVMom
    /\ call.track.tpcInnerParam <= conf.ConfPtCuts[kDeuteron + 1].PThres
    /\ call.track.p > conf.ConfPtCuts[kDeuteron + 1].PThres
    /\ ~call.pThres

\* C14: under the default ConfPIDRejection, isSelectedTrackPID called with
\* Rejection returns false for every candidate whose proton, pion or
\* electron nSigma lies strictly between -2 and 2.
C14_DefaultRejectionWindows ==
    ( /\ call.fn = "isSelectedTrackPID"
      /\ call.Rejection
      /\ conf.ConfPIDRejection = pidRejectionTable
      /\ \/ -200 < call.nSigmaTPC[1] /\ call.nSigmaTPC[1] < 200
         \/ -200 < call.nSigmaPi /\ call.nSigmaPi < 200
         \/ -200 < call.nSigmaEl /\ call.nSigmaEl < 200 )
    => ~call.ret

\* the track with every chi2 per cluster that the claim lets pass set to 0:
\* one whose switch is off, or that does not exceed its maximum
withAllowedChi2Cleared(track) ==
    [track EXCEPT
       !.tpcChi2NCl = IF conf.ConfTrkRequireChi2MaxTPC
                         /\ @ > conf.ConfTrkMaxChi2PerClusterTPC THEN @ ELSE 0,
       !.itsChi2NCl = IF conf.ConfTrkRequireChi2MaxITS
                         /\ @ > conf.ConfTrkMaxChi2PerClusterITS THEN @ ELSE 0]

\* C15: a chi2 per cluster (TPC, ITS) has an effect on isSelectedTrack only
\* when its switch is on and it exceeds ConfTrkMaxChi2PerClusterTPC (ITS):
\* with the switch off, or with a chi2 less than or equal to the maximum,
\* the track is selected exactly as if its chi2 were 0.
C15_Chi2UpToMaxAllowed ==
    (call.fn = "isSelectedTrack") =>
        call.ret = isSelectedTrack(withAllowedChi2Cleared(call.track), call.partSpecies)

\* C16: isSelectedV0Daughter returns false whenever the requested charge and
\* the sign of the track are opposite, whatever the other cuts say.
C16_DaughterChargeMatchesSign ==
    ( /\ call.fn = "isSelectedV0Daughter"
      /\ \/ call.charge < 0 /\ call.track.sign > 0
         \/ call.charge > 0 /\ call.track.sign < 0 )
    => ~call.ret

\* a daughter has been refused for its sign alone: asked for with the
\* charge of its sign the same track is selected
C16_Witness ==
    /\ call.fn = "isSelectedV0Daughter"
    /\ call.charge > 0
    /\ call.track.sign < 0
    /\ ~call.ret
    /\ isSelectedV0Daughter(call.track, -1, call.species, call.nSigmaTPCDaug)

\* the four histograms of EventCuts
EventCutsBefore == {"EventCuts/fMultiplicityBefore", "EventCuts/fZvtxBefore"}
EventCutsAfter == {"EventCuts/fMultiplicityAfter", "EventCuts/fZvtxAfter"}

\* C17: a process call that returns adds exactly one entry to
\* fMultiplicityBefore and to fZvtxBefore, and exactly one to
\* fMultiplicityAfter and to fZvtxAfter when the event passes
\* isSelectedEvent and none otherwise; nothing else adds an entry; at any
\* time the After histograms hold no more entries than the Before ones and
\* as many as outputCollision has rows.
C17_EventCutsEntries ==
    [][ /\ processReturns =>
             /\ registry'["EventCuts/fMultiplicityBefore"]
                   = Append(registry["EventCuts/fMultiplicityBefore"],
                            << col.multNTracksPV >>)
             /\ registry'["EventCuts/fZvtxBefore"]
                   = Append(registry["EventCuts/fZvtxBefore"], << col.posZ >>)
             /\ registry'["EventCuts/fMultiplicityAfter"]
                   = IF isSelectedEvent(col)
                     THEN Append(registry["EventCuts/fMultiplicityAfter"],
                                 << col.multNTracksPV >>)
                     ELSE registry["EventCuts/fMultiplicityAfter"]
             /\ registry'["EventCuts/fZvtxAfter"]
                   = IF isSelectedEvent(col)
                     THEN Append(registry["EventCuts/fZvtxAfter"], << col.posZ >>)
                     ELSE registry["EventCuts/fZvtxAfter"]
        /\ ~processReturns =>
             \A h \in EventCutsBefore \cup EventCutsAfter : registry'[h] = registry[h]
        /\ \A h \in EventCutsBefore : Len(registry'[h]) = nProcessed'
        /\ \A h \in EventCutsAfter :
             /\ Len(registry'[h]) <= Len(registry'["EventCuts/fZvtxBefore"])
             /\ Len(registry'[h]) = Len(outputCollision')
      ]_vars

\* three events have been processed and not all of them were selected
C17_Witness ==
    /\ pc = "idle"
    /\ nProcessed = 3
    /\ Len(registry["EventCuts/fZvtxBefore"]) = 3
    /\ Len(registry["EventCuts/fZvtxAfter"]) = 2
    /\ Len(registry["EventCuts/fMultiplicityAfter"]) = 2
    /\ Len(outputCollision) = 2
    /\ ~isSelectedEvent(col)

\* C18: a process call that returns adds to fPtTrackBefore, fEtaTrackBefore
\* and fPhiTrackBefore exactly one entry for every track of the event, in
\* track order, whether or not the event passes isSelectedEvent.
C18_TracksBeforeHoldAllTracks ==
    [][ processReturns =>
          /\ appendedTo(registry["TrackCuts/TracksBefore/fPtTrackBefore"],
                        registry'["TrackCuts/TracksBefore/fPtTrackBefore"])
                = [i \in 1..Len(tracks) |-> << tracks[i].pt >>]
          /\ appendedTo(registry["TrackCuts/TracksBefore/fEtaTrackBefore"],
                        registry'["TrackCuts/TracksBefore/fEtaTrackBefore"])
                = [i \in 1..Len(tracks) |-> << tracks[i].eta >>]
          /\ appendedTo(registry["TrackCuts/TracksBefore/fPhiTrackBefore"],
                        registry'["TrackCuts/TracksBefore/fPhiTrackBefore"])
                = [i \in 1..Len(tracks) |-> << tracks[i].phi >>]
      ]_vars

====
